---- MODULE Spec2Model ----
(***************************************************************************)
(* Gesture stabilization engine of pages/GestureRecognition.tsx: the local *)
(* decision path (voting window + segmentation state machine) together     *)
(* with the handlers that share its state: the mode-switch effect, the     *)
(* camera restart and the manual remote analysis call; and the remote      *)
(* path's motion-gated capture trigger (processCloudMotion).               *)
(*                                                                         *)
(* Conventions: scores are in hundredths (0.9 is 90); times are in ms;     *)
(* a React state cell is a variable holding the committed value; a ref is  *)
(* a variable named after the ref; the value a closure captured is a       *)
(* variable of its own (loopGestureStatus).                                *)
(***************************************************************************)
EXTENDS Integers, Sequences, FiniteSets, TLC

\* ---------------------------------------------------------------- constants
HISTORY_SIZE == 8
CONFIRMATION_THRESHOLD == 5
COOLDOWN_MS == 1000
CustomScore == 90
\* Math.abs(data[i] - previous[i]) > 30
PIXEL_DELTA == 30
\* diff > 5
MOTION_MIN_DIFF == 5
\* Date.now() - lastCaptureTimeRef.current > 3000
CAPTURE_INTERVAL_MS == 3000
\* useState(1000)
DefaultStabilityThreshold == 1000
\* const throttle = usingCpuBackendRef.current ? 150 : 100
CPU_THROTTLE_MS == 150
GPU_THROTTLE_MS == 100
\* timestamp - lastProcessedTimeRef.current > 200
CLOUD_THROTTLE_MS == 200
\* duration > 20
SLOW_INFERENCE_MS == 20
\* pinchDist < 0.06 and idxMcp.x -/+ 0.1, in hundredths of the image width
PINCH_DIST == 6
POINT_DEADBAND == 10

\* Bounds of the model.
StartTime == 5000
Horizon == 1750
FrameGap == 125
LongGap == 1125
LateStart == 500
SampleCount == 6
CloudGap == 250
CloudLongGap == 1250
CloudHorizon == 3250
RateGap == 500
RateLongGap == 1500
RateHorizon == 6000
SessionHorizon == 1750
LocalSessionHorizon == 1375
ConfigHorizon == 2000
TimeOrigin == 4000
TickGap == 50
LoopHorizon == 400
RestartHorizon == 300
MaxStreamCalls == 2

Null == "null"
NoGesture == [category |-> "NoGesture", score |-> 0]

\* What the tracker reports as its top gesture for the first hand.
ThumbUp == [category |-> "Thumb_Up", score |-> 80]
TrackerGestures == {NoGesture, ThumbUp}
\* What detectCustomGestures returns for the first hand's landmarks.
CustomResults == {Null, "Call_Me"}
\* Date.now() differences between two processed frames.
Gaps == {FrameGap, LongGap}
\* How a started remote analysis call ends.
Outcomes == {"text", "failed"}

\* The samples the motion step reads from a downscaled frame (data[i] for
\* i = 0, 16, 32, ...), for three scenes.
Dark == [i \in 1..SampleCount |-> 0]
FiveChanged ==
    [i \in 1..SampleCount |-> IF i <= MOTION_MIN_DIFF THEN PIXEL_DELTA + 1 ELSE PIXEL_DELTA]
SixChanged ==
    [i \in 1..SampleCount |-> IF i <= MOTION_MIN_DIFF + 1 THEN PIXEL_DELTA + 1 ELSE 0]
Scenes == {Dark, FiveChanged, SixChanged}
\* previousFrameRef.current before the first remote-path frame (null).
NoSample == <<>>
\* Date.now() differences between two remote-path frames.
CloudGaps == {CloudGap, CloudLongGap}
\* The same for a slower loop.
RateGaps == {RateGap, RateLongGap}
\* performance.now() differences around recognizeForVideo: a call that is not
\* over the limit and one that is.
Durations == {SLOW_INFERENCE_MS, SLOW_INFERENCE_MS + 1}
\* How a loadModel call ends: the GPU recognizer was created, the CPU one after
\* the GPU attempt failed, or neither.
LoadOutcomes == {"gpu", "cpu", "failed"}

VARIABLES
    gestureHistoryRef,        \* Array<{category, score}>
    lastConfirmedGestureRef,  \* string | null
    gestureCooldownRef,       \* Date.now() of the last confirmation
    gestureStatus,            \* React state: the value after every queued update
    loopGestureStatus,        \* gestureStatus as captured by the running loop's closure
    now,                      \* Date.now() at the last processed frame
    preferredMode, isOnline,  \* React state
    effectiveModeRef,         \* ref read by the loop
    isActive,                 \* React state
    requestRef,               \* TRUE when a processingLoop callback is requested
    streamCalls,              \* what the processingLoop of each startCamera call
                              \* that awaits its stream closes over
    srcObject,                \* TRUE when a stream is attached to the video element
    videoReady,               \* video.readyState === 4 (HAVE_ENOUGH_DATA)
    metadataEvent,            \* the loadedmetadata event the attached stream has
                              \* yet to fire: <<>> or <<what the loop of its
                              \* onloadedmetadata handler closes over>>
    playCalls,                \* the same for each play() promise not yet settled
    rendered,                 \* the state values of the committed render
    modeEffectDeps,           \* [effectiveMode, isActive] at the last run of the
                              \* mode-switch effect
    autoCapture,              \* React state
    autoCaptureRef,           \* ref read by the loop
    isProcessing,             \* React state
    isProcessingRef,          \* ref read by captureAndAnalyze
    pending,                  \* analyzeGesture calls that have not settled
    previousFrameRef,         \* samples of the previous remote-path frame | null
    lastCaptureTimeRef,       \* Date.now() of the last capture the trigger fired
    isMotionDetectedRef,      \* motion flag
    stabilityTimerRef,        \* Date.now() of the last frame classified as moving
    stabilityThreshold,       \* React state (hold time, ms)
    loopStabilityThreshold,   \* stabilityThreshold as captured by the running loop's closure
    cloud,                    \* history: the last step's remote-path frame
    sessionMoved,             \* history: a frame was classified as moving since the
                              \* session started or the last capture fired
    lastProcessedTimeRef,     \* loop timestamp of the last tick that passed the throttle
    usingCpuBackendRef,       \* CPU-backend flag
    videoTime,                \* video.currentTime (ms)
    lastVideoTimeRef,         \* video.currentTime of the last frame given to the tracker
    gestureRecognizerRef,     \* TRUE when a recognizer is loaded (non-null)
    isInitializingRef,        \* a loadModel call is running
    modelError,               \* React state, TRUE when an error text is set
    isModelLoading,           \* React state
    isModelLoadingRef,        \* ref read by the loop
    mode,                     \* React state: recognition scope
    selectedLanguage,         \* React state: language hint
    loopRequest,              \* [mode, language] as captured by the captureAndAnalyze
                              \* that the running loop's closure calls
    tick,                     \* history: the last step's loop tick
    loopLog,                  \* history: loop timestamps of the last local and remote steps
    classified,               \* history: the last landmark set classified and its label
    op,                       \* history: the operation that made the last step
    frame,                    \* history: the last step's frame [hands, obs, evicted]
    event,                    \* history: the confirmation the last step emitted
    lastEvent,                \* history: the latest confirmation emitted
    handFrames,               \* history: hand-present frames processed since the last
                              \* reset (start, mode switch, hand loss), counted up to
                              \* CONFIRMATION_THRESHOLD
    resetSince                \* history: what cleared the last-confirmed memory since

vars == <<gestureHistoryRef, lastConfirmedGestureRef, gestureCooldownRef,
          gestureStatus, loopGestureStatus, now, preferredMode, isOnline,
          effectiveModeRef, isActive, requestRef, streamCalls, srcObject,
          videoReady, metadataEvent, playCalls, rendered,
          modeEffectDeps,
          autoCapture, autoCaptureRef, isProcessing,
          isProcessingRef, pending, previousFrameRef, lastCaptureTimeRef,
          isMotionDetectedRef, stabilityTimerRef, stabilityThreshold,
          loopStabilityThreshold, cloud, sessionMoved,
          lastProcessedTimeRef, usingCpuBackendRef, videoTime, lastVideoTimeRef,
          gestureRecognizerRef, isInitializingRef, modelError, isModelLoading,
          isModelLoadingRef, mode, selectedLanguage, loopRequest, tick, loopLog,
          classified,
          op, frame, event, lastEvent, handFrames, resetSince>>

localRefs == <<gestureHistoryRef, lastConfirmedGestureRef, gestureCooldownRef>>
modeVars == <<preferredMode, isOnline, effectiveModeRef, isActive, autoCapture,
              autoCaptureRef, requestRef, streamCalls, srcObject, videoReady,
              metadataEvent, playCalls>>
videoVars == <<srcObject, videoReady, metadataEvent, playCalls>>
renderVars == <<rendered, modeEffectDeps>>
callVars == <<isProcessing, isProcessingRef, pending>>
eventLog == <<lastEvent, resetSince, handFrames>>
cloudRefs == <<previousFrameRef, lastCaptureTimeRef, isMotionDetectedRef,
               stabilityTimerRef>>
thresholdVars == <<stabilityThreshold, loopStabilityThreshold>>
loopRefs == <<lastProcessedTimeRef, usingCpuBackendRef, videoTime, lastVideoTimeRef,
              loopLog>>
modelVars == <<gestureRecognizerRef, isInitializingRef, modelError, isModelLoading,
               isModelLoadingRef>>
requestVars == <<mode, selectedLanguage, loopRequest>>

NoObs == [category |-> "None", score |-> 0]
NoFrame == [hands |-> FALSE, obs |-> NoObs, evicted |-> FALSE,
            gesture |-> NoGesture, custom |-> Null]
NoEvent == [label |-> Null, timestamp |-> 0]
\* event when the step confirmed nothing; otherwise label and timestamp of the
\* confirmation, the confirmation before it (prev) and what had cleared the
\* last-confirmed memory between the two (reset).
NoEmission == [label |-> Null, timestamp |-> 0, prev |-> NoEvent, reset |-> "no"]
\* cloud when the step was no remote-path frame; otherwise whether a previous
\* sample was available, the difference count, the motion flag, the stability
\* timer and the last capture time before the frame, whether the session had
\* moved, and whether the frame fired the capture.
\* exceeded is the outcome of the frame's hold-time test, sent the scope and
\* language the fired capture passed to analyzeGesture, before the status the
\* frame found.
NoRequest == [mode |-> Null, language |-> Null]
NoCloud == [hadPrev |-> FALSE, diff |-> 0, flag |-> FALSE, timer |-> 0,
            prevCapture |-> 0, moved |-> FALSE, fired |-> FALSE,
            exceeded |-> FALSE, sent |-> NoRequest, before |-> Null]
\* tick when the step was no loop tick; otherwise whether the tick invoked the
\* local step and whether that reached the tracker call, whether it invoked the
\* remote step, the CPU-backend flag at the tick, the loop time since the
\* previous local and remote step (-1 when there was none), the duration
\* of the tracker call, and whether the video had advanced since the tick before.
NoTick == [local |-> FALSE, called |-> FALSE, cloud |-> FALSE, cpu |-> FALSE,
           sinceLocal |-> -1, sinceCloud |-> -1, duration |-> 0, fresh |-> FALSE]
NoLoopLog == [lastLocal |-> -1, lastCloud |-> -1]
NoShape == [thumbOpen |-> FALSE, indexOpen |-> FALSE, middleOpen |-> FALSE,
            ringOpen |-> FALSE, pinkyOpen |-> FALSE, pinch |-> FALSE,
            direction |-> "none"]
NoClassified == [landmarks |-> <<>>, shape |-> NoShape, label |-> Null]

\* ------------------------------------------------------------ pure helpers
\* effectiveMode = !isOnline ? 'LOCAL' : preferredMode
EffectiveMode(online, preferred) == IF ~online THEN "LOCAL" ELSE preferred

\* The raw gesture of the tracker, "None"/0 when it reports none.
RawObservation(gesture) ==
    IF gesture # NoGesture THEN gesture ELSE [category |-> "None", score |-> 0]

ObservationTrackerOnly(hands, gesture, custom) == RawObservation(gesture)

\* The custom classifier overrides the tracker when it returns a label.
Observation(hands, gesture, custom) ==
    IF hands /\ custom # Null
    THEN [category |-> custom, score |-> CustomScore]
    ELSE RawObservation(gesture)

PushNoEvict(h, obs) == Append(h, obs)

PushEvictNewest(h, obs) ==
    IF Len(h) + 1 > HISTORY_SIZE THEN h ELSE Append(h, obs)

PushDropWindow(h, obs) ==
    IF Len(h) + 1 > HISTORY_SIZE THEN <<obs>> ELSE Append(h, obs)

\* gestureHistoryRef.current.push(obs); if (length > HISTORY_SIZE) shift()
Push(h, obs) ==
    LET pushed == Append(h, obs)
    IN IF Len(pushed) > HISTORY_SIZE THEN Tail(pushed) ELSE pushed

\* counts[item.category]
Count(h, cat) == Cardinality({i \in 1..Len(h) : h[i].category = cat})

\* The keys of counts in insertion order (Object.entries order).
RECURSIVE Keys(_)
Keys(h) ==
    IF h = <<>> THEN <<>>
    ELSE LET k == Keys(SubSeq(h, 1, Len(h) - 1))
             c == h[Len(h)].category
         IN IF \E i \in 1..Len(k) : k[i] = c THEN k ELSE Append(k, c)

FindWinnerFirst(entries, h, acc) ==
    IF entries = <<>> THEN acc
    ELSE [smoothedGesture |-> Head(entries), maxCount |-> Count(h, Head(entries))]

FindWinnerLastTie(entries, h, acc) ==
    IF entries = <<>> THEN acc
    ELSE LET best == CHOOSE i \in DOMAIN entries :
                         /\ \A j \in DOMAIN entries :
                                Count(h, entries[j]) <= Count(h, entries[i])
                         /\ \A j \in DOMAIN entries :
                                j > i => Count(h, entries[j]) < Count(h, entries[i])
         IN [smoothedGesture |-> entries[best], maxCount |-> Count(h, entries[best])]

\* Object.entries(counts).forEach: a strictly greater count replaces the winner.
RECURSIVE FindWinner(_, _, _)
FindWinner(entries, h, acc) ==
    IF entries = <<>> THEN acc
    ELSE LET cat == Head(entries)
             count == Count(h, cat)
         IN FindWinner(Tail(entries), h,
                IF count > acc.maxCount
                THEN [smoothedGesture |-> cat, maxCount |-> count]
                ELSE acc)

VoteNewest(h) ==
    [smoothedGesture |-> h[Len(h)].category,
     maxCount |-> Count(h, h[Len(h)].category)]

\* counts over the window, then the winner; smoothedGesture starts as 'None', 0.
Vote(h) == FindWinner(Keys(h), h, [smoothedGesture |-> "None", maxCount |-> 0])

PassesThresholdAnyLabel(v) == v.maxCount >= CONFIRMATION_THRESHOLD

\* smoothedGesture !== 'None' && maxCount >= CONFIRMATION_THRESHOLD
PassesThreshold(v) ==
    v.smoothedGesture # "None" /\ v.maxCount >= CONFIRMATION_THRESHOLD

IsNewGestureAlways(smoothed, last) == TRUE

\* smoothedGesture !== lastConfirmedGestureRef.current
IsNewGesture(smoothed, last) == smoothed # last

CooldownPassedNoNull(t, cooldown, last) == t - cooldown > COOLDOWN_MS

CooldownPassedGe(t, cooldown, last) == t - cooldown >= COOLDOWN_MS \/ last = Null

\* now - gestureCooldownRef.current > COOLDOWN_MS || lastConfirmedGestureRef.current === null
CooldownPassed(t, cooldown, last) == t - cooldown > COOLDOWN_MS \/ last = Null

RecordConfirmedForgotten(smoothed, last) == last

\* lastConfirmedGestureRef.current = smoothedGesture
RecordConfirmed(smoothed, last) == smoothed

\* if (gestureStatus !== 'IDLE') { setGestureStatus('IDLE') }
\* where gestureStatus is the value the loop's closure captured.
StatusAfterNoHand(captured, current) ==
    IF captured # "IDLE" THEN "IDLE" ELSE current

HistoryAfterNoHandKept(h) == h

\* gestureHistoryRef.current = []
HistoryAfterNoHand(h) == <<>>

\* ------------------------------------------------- remote-path helpers
Abs(x) == IF x < 0 THEN -x ELSE x

\* for (i = 0; i < data.length; i += 16)
\*   if (Math.abs(data[i] - previousFrameRef.current[i]) > 30) diff++
DiffCount(data, previous) ==
    Cardinality({i \in DOMAIN data : Abs(data[i] - previous[i]) > PIXEL_DELTA})

IsMovingFromMinimum(diff) == diff >= MOTION_MIN_DIFF

\* diff > 5
IsMoving(diff) == diff > MOTION_MIN_DIFF

HoldExceededAlways(t, timer, threshold) == TRUE

\* stableDuration > stabilityThreshold, stableDuration = Date.now() - stabilityTimerRef.current
HoldExceeded(t, timer, threshold) == t - timer > threshold

CaptureAllowedWhileProcessing(t, lastCapture, processingRef) ==
    t - lastCapture > CAPTURE_INTERVAL_MS

CaptureAllowedFromInterval(t, lastCapture, processingRef) ==
    ~processingRef /\ t - lastCapture >= CAPTURE_INTERVAL_MS

\* !isProcessingRef.current && (Date.now() - lastCaptureTimeRef.current > 3000)
CaptureAllowed(t, lastCapture, processingRef) ==
    ~processingRef /\ t - lastCapture > CAPTURE_INTERVAL_MS

FlagAfterCaptureKept(flag) == flag

\* isMotionDetectedRef.current = false
FlagAfterCapture(flag) == FALSE

ProcessingAfterSettleKept(processing) == processing

\* finally { setIsProcessing(false) }
ProcessingAfterSettle(processing) == FALSE

\* ------------------------------------------------------------------ Init
\* loadModel has returned with a recognizer created on the GPU.
ModelLoaded ==
    /\ gestureRecognizerRef = TRUE
    /\ isInitializingRef = FALSE
    /\ modelError = FALSE
    /\ isModelLoading = FALSE
    /\ isModelLoadingRef = FALSE

\* The loadModel call of the mount effect is awaiting the recognizer.
ModelLoading ==
    /\ gestureRecognizerRef = FALSE
    /\ isInitializingRef = TRUE
    /\ modelError = FALSE
    /\ isModelLoading = TRUE
    /\ isModelLoadingRef = TRUE

InitCore(t, effective) ==
    /\ gestureHistoryRef = <<>>
    /\ lastConfirmedGestureRef = Null
    /\ gestureCooldownRef = 0
    /\ gestureStatus = "IDLE"
    /\ loopGestureStatus = "IDLE"
    /\ now = t
    /\ preferredMode = effective
    /\ isOnline = TRUE
    /\ effectiveModeRef = EffectiveMode(TRUE, effective)
    /\ isActive = TRUE
    /\ requestRef = TRUE
    /\ streamCalls = <<>>
    /\ srcObject = TRUE
    /\ videoReady = TRUE
    /\ metadataEvent = <<>>
    /\ playCalls = <<>>
    /\ modeEffectDeps = [effectiveMode |-> EffectiveMode(TRUE, effective),
                         isActive |-> TRUE]
    /\ autoCapture = (effective = "LOCAL")
    /\ autoCaptureRef = (effective = "LOCAL")
    /\ isProcessing = FALSE
    /\ isProcessingRef = FALSE
    /\ pending = 0
    /\ previousFrameRef = NoSample
    /\ lastCaptureTimeRef = 0
    /\ isMotionDetectedRef = FALSE
    /\ stabilityTimerRef = 0
    /\ stabilityThreshold = DefaultStabilityThreshold
    /\ loopStabilityThreshold = DefaultStabilityThreshold
    /\ cloud = NoCloud
    /\ sessionMoved = FALSE
    /\ lastProcessedTimeRef = 0
    /\ usingCpuBackendRef = FALSE
    /\ videoTime = 0
    /\ lastVideoTimeRef = -1
    /\ mode = "SENTENCE"
    /\ selectedLanguage = "Auto"
    /\ loopRequest = [mode |-> "SENTENCE", language |-> "Auto"]
    /\ tick = NoTick
    /\ loopLog = NoLoopLog
    /\ classified = NoClassified
    /\ op = "init"
    /\ frame = NoFrame
    /\ event = NoEmission
    /\ lastEvent = NoEvent
    /\ handFrames = 0
    /\ resetSince = "no"

\* The state values a render reads: useState's current values once every
\* queued update is applied.
Snapshot ==
    [gestureStatus |-> gestureStatus, isOnline |-> isOnline, isActive |-> isActive,
     autoCapture |-> autoCapture, isProcessing |-> isProcessing,
     isModelLoading |-> isModelLoading, modelError |-> modelError]

InitWith(t, effective) == InitCore(t, effective) /\ ModelLoaded /\ rendered = Snapshot

\* The page mounted with no stored mode preference ('LOCAL'), stream started.
InitAt(t) == InitWith(t, "LOCAL")

Init == InitAt(StartTime)

\* The page mounted with localStorage 'gestureMode' = 'CLOUD', stream started.
InitCloud == InitWith(StartTime, "CLOUD")

\* The same construction at a later wall-clock time.
InitLate == InitAt(StartTime + LateStart)

\* The page mounted with no stored preference, stream started, model loading.
InitLoop == InitCore(StartTime, "LOCAL") /\ ModelLoading /\ rendered = Snapshot

\* A step that processes no frame and confirms nothing.
NotAFrame(name) ==
    /\ op' = name
    /\ frame' = NoFrame
    /\ event' = NoEmission
    /\ cloud' = NoCloud
    /\ tick' = NoTick

\* ------------------------------------------------------- the local step
\* processLocalFrame, for a frame that reaches the tracker call, with the
\* tracker's output (hands, gesture), the classifier's answer for the first
\* hand (custom) and the time dt since the previous processed frame.
ProcessLocalFrame(hands, gesture, custom, dt) ==
    /\ LET t == now + dt
           obs == Observation(hands, gesture, custom)
           pushed == Push(gestureHistoryRef, obs)
           v == Vote(pushed)
       IN /\ now' = t
          /\ op' = "frame"
          /\ frame' = [hands |-> hands, obs |-> obs,
                       evicted |-> hands /\ Len(gestureHistoryRef) >= HISTORY_SIZE,
                       gesture |-> gesture, custom |-> custom]
          /\ IF ~hands
             THEN /\ gestureStatus' = StatusAfterNoHand(loopGestureStatus, gestureStatus)
                  /\ gestureHistoryRef' = HistoryAfterNoHand(pushed)
                  /\ lastConfirmedGestureRef' = Null
                  /\ event' = NoEmission
                  /\ resetSince' = "handloss"
                  /\ UNCHANGED <<gestureCooldownRef, lastEvent>>
             ELSE IF PassesThreshold(v)
             THEN IF IsNewGesture(v.smoothedGesture, lastConfirmedGestureRef)
                  THEN IF CooldownPassed(t, gestureCooldownRef, lastConfirmedGestureRef)
                       THEN /\ gestureStatus' = "CONFIRMED"
                            /\ lastConfirmedGestureRef' =
                                   RecordConfirmed(v.smoothedGesture, lastConfirmedGestureRef)
                            /\ gestureCooldownRef' = t
                            /\ gestureHistoryRef' = pushed
                            /\ event' = [label |-> v.smoothedGesture, timestamp |-> t,
                                         prev |-> lastEvent, reset |-> resetSince]
                            /\ lastEvent' = [label |-> v.smoothedGesture, timestamp |-> t]
                            /\ resetSince' = "no"
                       ELSE /\ gestureHistoryRef' = pushed
                            /\ event' = NoEmission
                            /\ UNCHANGED <<gestureStatus, lastConfirmedGestureRef,
                                           gestureCooldownRef, lastEvent, resetSince>>
                  ELSE /\ gestureStatus' = "STABLE"
                       /\ gestureHistoryRef' = pushed
                       /\ event' = NoEmission
                       /\ UNCHANGED <<lastConfirmedGestureRef, gestureCooldownRef,
                                      lastEvent, resetSince>>
             ELSE /\ gestureStatus' = "MOVING"
                  /\ gestureHistoryRef' = pushed
                  /\ event' = NoEmission
                  /\ UNCHANGED <<lastConfirmedGestureRef, gestureCooldownRef, lastEvent,
                                 resetSince>>
    /\ handFrames' = IF ~hands THEN 0
                     ELSE IF handFrames < CONFIRMATION_THRESHOLD THEN handFrames + 1
                     ELSE handFrames
    /\ cloud' = NoCloud
    /\ UNCHANGED <<loopGestureStatus, modeVars, renderVars, callVars, cloudRefs,
                   thresholdVars, sessionMoved, modelVars, requestVars, classified>>

\* processLocalFrame for a frame whose tracker call (or the reading of its
\* result) throws: the catch logs the error and the function returns.
ProcessLocalFrameFailed(dt) ==
    /\ now' = now + dt
    /\ op' = "framefailed"
    /\ frame' = NoFrame
    /\ event' = NoEmission
    /\ cloud' = NoCloud
    /\ UNCHANGED <<localRefs, gestureStatus, loopGestureStatus, modeVars, renderVars,
                   callVars, eventLog, cloudRefs, thresholdVars, sessionMoved,
                   modelVars, requestVars, classified>>

\* ------------------------------------------------------ render, effects
\* The dependencies [effectiveMode, isActive] as the committed render has them.
RenderedDeps ==
    [effectiveMode |-> EffectiveMode(rendered.isOnline, preferredMode),
     isActive |-> rendered.isActive]

\* Some passive effect of the committed render has not run: a dependency
\* differs from its value at the effect's last run.
PendingEffects ==
    \/ rendered.autoCapture # autoCaptureRef
    \/ rendered.isProcessing # isProcessingRef
    \/ rendered.isModelLoading # isModelLoadingRef
    \/ RenderedDeps # modeEffectDeps

\* gestureHistoryRef.current = []
HistoryAfterModeSwitch(h) == <<>>

\* if (gestureStatus !== 'IDLE') setGestureStatus('IDLE'), on the status of
\* the render the effect belongs to.
StatusAfterModeSwitch(captured, current) ==
    IF captured # "IDLE" THEN "IDLE" ELSE current

\* What the effects on effectiveMode and isActive read and write.
EffectState ==
    [gestureStatus |-> gestureStatus,
     autoCapture |-> autoCapture,
     lastConfirmedGestureRef |-> lastConfirmedGestureRef,
     gestureHistoryRef |-> gestureHistoryRef,
     effectiveModeRef |-> effectiveModeRef,
     modeEffectDeps |-> modeEffectDeps,
     resetSince |-> resetSince,
     handFrames |-> handFrames,
     sessionMoved |-> sessionMoved]

\* The effect on [effectiveMode, isActive] and the effect that copies
\* effectiveMode into its ref, run in state s for a render with the given
\* status, effective mode and isActive.
ModeEffect(s, status, effective, active) ==
    [s EXCEPT !.gestureStatus = StatusAfterModeSwitch(status, @),
              !.lastConfirmedGestureRef = Null,
              !.gestureHistoryRef = HistoryAfterModeSwitch(@),
              !.autoCapture = (effective = "LOCAL" /\ active),
              !.effectiveModeRef = effective,
              !.modeEffectDeps = [effectiveMode |-> effective, isActive |-> active],
              !.resetSince = "modeswitch",
              !.handFrames = 0,
              !.sessionMoved = FALSE]

\* The two effects run when a dependency differs from its value at their
\* last run.
RunEffects(s, status, deps) ==
    IF deps # s.modeEffectDeps
    THEN ModeEffect(s, status, deps.effectiveMode, deps.isActive)
    ELSE s

SetEffectState(s) ==
    /\ gestureStatus' = s.gestureStatus
    /\ autoCapture' = s.autoCapture
    /\ lastConfirmedGestureRef' = s.lastConfirmedGestureRef
    /\ gestureHistoryRef' = s.gestureHistoryRef
    /\ effectiveModeRef' = s.effectiveModeRef
    /\ modeEffectDeps' = s.modeEffectDeps
    /\ resetSince' = s.resetSince
    /\ handFrames' = s.handFrames
    /\ sessionMoved' = s.sessionMoved

\* What neither a click nor an effect writes.
untouched == <<gestureCooldownRef, lastEvent, now, cloudRefs, isOnline,
               lastProcessedTimeRef, usingCpuBackendRef, lastVideoTimeRef, loopLog,
               classified>>

\* React renders the updates queued outside a click (loop ticks, network
\* events, settled promises, passive effects); the passive effects of the
\* commit before it have run.
Render ==
    /\ ~PendingEffects
    /\ rendered # Snapshot
    /\ rendered' = Snapshot
    /\ NotAFrame("render")
    /\ UNCHANGED <<localRefs, gestureStatus, loopGestureStatus, now, modeVars,
                   modeEffectDeps, callVars, eventLog, cloudRefs, thresholdVars,
                   sessionMoved, loopRefs, modelVars, requestVars, classified>>

\* The passive effects of the committed render:
\* useEffect(() => { effectiveModeRef.current = effectiveMode }, [effectiveMode]),
\* useEffect(() => { autoCaptureRef.current = autoCapture }, [autoCapture]),
\* useEffect(() => { isModelLoadingRef.current = isModelLoading }, [isModelLoading]),
\* useEffect(() => { isProcessingRef.current = isProcessing }, [isProcessing])
\* and the mode-switch effect on [effectiveMode, isActive].
PassiveEffects ==
    /\ PendingEffects
    /\ autoCaptureRef' = rendered.autoCapture
    /\ isProcessingRef' = rendered.isProcessing
    /\ isModelLoadingRef' = rendered.isModelLoading
    /\ SetEffectState(RunEffects(EffectState, rendered.gestureStatus, RenderedDeps))
    /\ NotAFrame(IF RenderedDeps # modeEffectDeps THEN "mode" ELSE "sync")
    /\ UNCHANGED <<untouched, loopGestureStatus, preferredMode, isActive, requestRef,
                   streamCalls, videoVars, rendered, isProcessing, pending, thresholdVars,
                   videoTime, gestureRecognizerRef, isInitializingRef, modelError,
                   isModelLoading, requestVars>>

\* What React does with a click once the handler has returned, s being the
\* state the handler left: it runs the pending passive effects of the commit
\* before, renders the click's updates (next, with dependencies deps) without
\* the updates queued outside clicks, and runs that render's effects.
DiscreteRender(s, next, deps) ==
    /\ SetEffectState(RunEffects(RunEffects(s, rendered.gestureStatus, RenderedDeps),
                                 next.gestureStatus, deps))
    /\ rendered' = next
    /\ autoCaptureRef' = next.autoCapture
    /\ isProcessingRef' = next.isProcessing
    /\ isModelLoadingRef' = next.isModelLoading

\* onClick={() => setPreferredMode('LOCAL')} and
\* onClick={() => isOnline && setPreferredMode('CLOUD')} (disabled offline).
SetPreferredMode(m) ==
    /\ m # preferredMode
    /\ m = "CLOUD" => rendered.isOnline
    /\ preferredMode' = m
    /\ DiscreteRender(EffectState, rendered,
                      [effectiveMode |-> EffectiveMode(rendered.isOnline, m),
                       isActive |-> rendered.isActive])
    /\ NotAFrame("mode")
    /\ UNCHANGED <<untouched, loopGestureStatus, isActive, requestRef, streamCalls, videoVars,
                   isProcessing, pending, thresholdVars, videoTime,
                   gestureRecognizerRef, isInitializingRef, modelError,
                   isModelLoading, requestVars>>

\* handleOnline / handleOffline: setIsOnline, rendered in a later task.
SetOnline(b) ==
    /\ b # isOnline
    /\ isOnline' = b
    /\ NotAFrame("online")
    /\ UNCHANGED <<localRefs, gestureStatus, loopGestureStatus, now, preferredMode,
                   effectiveModeRef, isActive, requestRef, streamCalls, videoVars, autoCapture,
                   autoCaptureRef, renderVars, callVars, eventLog, cloudRefs,
                   thresholdVars, sessionMoved, loopRefs, modelVars, requestVars,
                   classified>>

\* ------------------------------------------------------- camera session
\* What the processingLoop of the committed render closes over.
LoopClosure ==
    [gestureStatus |-> rendered.gestureStatus,
     stabilityThreshold |-> stabilityThreshold,
     request |-> [mode |-> mode, language |-> selectedLanguage]]

\* startCamera calls awaiting their stream, streams whose loadedmetadata event
\* is due, and play() promises not yet settled.
InFlight == Len(streamCalls) + Len(metadataEvent) + Len(playCalls)

\* A click on another resolution button while the committed render has
\* isActive: the resolution effect of the click's render calls startCamera(),
\* whose stopCamera() cancels the loop, detaches the stream (the element falls
\* back to readyState 0 and drops the event it had yet to fire) and queues
\* setIsActive(false); startCamera then awaits getUserMedia. The call keeps the
\* handleStreamSuccess, and with it the processingLoop, of that render.
RestartCamera ==
    /\ rendered.isActive
    /\ InFlight < MaxStreamCalls
    /\ DiscreteRender(EffectState, rendered, RenderedDeps)
    /\ requestRef' = FALSE
    /\ srcObject' = FALSE
    /\ videoReady' = FALSE
    /\ metadataEvent' = <<>>
    /\ videoTime' = 0
    /\ isActive' = FALSE
    /\ streamCalls' = Append(streamCalls, LoopClosure)
    /\ NotAFrame("stop")
    /\ UNCHANGED <<untouched, loopGestureStatus, preferredMode, playCalls, isProcessing,
                   pending, thresholdVars, gestureRecognizerRef, isInitializingRef,
                   modelError, isModelLoading, requestVars>>

\* handleStreamSuccess for the stream of the i-th startCamera call in flight:
\* videoRef.current.srcObject = stream restarts the element (readyState 0,
\* currentTime 0) and onloadedmetadata is set to that call's handler.
HandleStreamSuccess(i) ==
    /\ i \in DOMAIN streamCalls
    /\ streamCalls' = SubSeq(streamCalls, 1, i - 1)
                          \o SubSeq(streamCalls, i + 1, Len(streamCalls))
    /\ srcObject' = TRUE
    /\ videoReady' = FALSE
    /\ metadataEvent' = <<streamCalls[i]>>
    /\ videoTime' = 0
    /\ NotAFrame("stream")
    /\ UNCHANGED <<localRefs, gestureStatus, loopGestureStatus, now, preferredMode,
                   isOnline, effectiveModeRef, isActive, requestRef, playCalls,
                   autoCapture, autoCaptureRef, renderVars, callVars, eventLog,
                   cloudRefs, thresholdVars, sessionMoved, lastProcessedTimeRef,
                   usingCpuBackendRef, lastVideoTimeRef, loopLog, modelVars,
                   requestVars, classified>>

\* videoRef.current.onloadedmetadata: the handler calls play().
OnLoadedMetadata ==
    /\ metadataEvent # <<>>
    /\ metadataEvent' = <<>>
    /\ playCalls' = Append(playCalls, metadataEvent[1])
    /\ NotAFrame("metadata")
    /\ UNCHANGED <<localRefs, gestureStatus, loopGestureStatus, now, preferredMode,
                   isOnline, effectiveModeRef, isActive, requestRef, streamCalls,
                   srcObject, videoReady, autoCapture, autoCaptureRef, renderVars,
                   callVars, eventLog, cloudRefs, thresholdVars, sessionMoved, loopRefs,
                   modelVars, requestVars, classified>>

\* The then-callback of the j-th pending play(): setIsActive(true) is queued,
\* and the loop of that handler's render is requested unless a loop is running.
PlayThen(j) ==
    /\ j \in DOMAIN playCalls
    /\ playCalls' = SubSeq(playCalls, 1, j - 1)
                        \o SubSeq(playCalls, j + 1, Len(playCalls))
    /\ isActive' = TRUE
    /\ IF requestRef
       THEN UNCHANGED <<requestRef, loopGestureStatus, loopStabilityThreshold,
                        loopRequest>>
       ELSE /\ requestRef' = TRUE
            /\ loopGestureStatus' = playCalls[j].gestureStatus
            /\ loopStabilityThreshold' = playCalls[j].stabilityThreshold
            /\ loopRequest' = playCalls[j].request
    /\ NotAFrame("start")
    /\ UNCHANGED <<localRefs, gestureStatus, now, preferredMode, isOnline,
                   effectiveModeRef, streamCalls, srcObject, videoReady, metadataEvent,
                   autoCapture, autoCaptureRef, renderVars, callVars, eventLog,
                   cloudRefs, stabilityThreshold, sessionMoved, loopRefs, modelVars,
                   mode, selectedLanguage, classified>>

\* The catch-callback of the j-th pending play(): it logs and sets the result
\* text.
PlayCatch(j) ==
    /\ j \in DOMAIN playCalls
    /\ playCalls' = SubSeq(playCalls, 1, j - 1)
                        \o SubSeq(playCalls, j + 1, Len(playCalls))
    /\ NotAFrame("playerror")
    /\ UNCHANGED <<localRefs, gestureStatus, loopGestureStatus, now, preferredMode,
                   isOnline, effectiveModeRef, isActive, requestRef, streamCalls,
                   srcObject, videoReady, metadataEvent, autoCapture, autoCaptureRef,
                   renderVars, callVars, eventLog, cloudRefs, thresholdVars,
                   sessionMoved, loopRefs, modelVars, requestVars, classified>>

\* The browser moves the attached stream's readyState to or from
\* HAVE_ENOUGH_DATA.
VideoReadyState(b) ==
    /\ srcObject
    /\ b # videoReady
    /\ videoReady' = b
    /\ NotAFrame("readystate")
    /\ UNCHANGED <<localRefs, gestureStatus, loopGestureStatus, now, preferredMode,
                   isOnline, effectiveModeRef, isActive, requestRef, streamCalls,
                   srcObject, metadataEvent, playCalls, autoCapture, autoCaptureRef,
                   renderVars, callVars, eventLog, cloudRefs, thresholdVars,
                   sessionMoved, loopRefs, modelVars, requestVars, classified>>

\* ------------------------------------------------- remote analysis call
\* captureAndAnalyze from the Manual Capture button (rendered in LOCAL mode,
\* disabled while isProcessing), up to the await of analyzeGesture.
ManualCapture ==
    /\ EffectiveMode(rendered.isOnline, preferredMode) = "LOCAL"
    /\ ~rendered.isProcessing
    /\ ~isProcessingRef
    /\ isProcessing' = TRUE
    /\ pending' = pending + 1
    /\ DiscreteRender(EffectState, [rendered EXCEPT !.isProcessing = TRUE],
                      RenderedDeps)
    /\ NotAFrame("capture")
    /\ UNCHANGED <<untouched, loopGestureStatus, preferredMode, isActive, requestRef,
                   streamCalls, videoVars, thresholdVars, videoTime, gestureRecognizerRef,
                   isInitializingRef, modelError, isModelLoading, requestVars>>

\* captureAndAnalyze after the await: the try's tail or the catch, then finally.
SettleAnalysis(outcome) ==
    /\ pending > 0
    /\ pending' = pending - 1
    /\ isProcessing' = ProcessingAfterSettle(isProcessing)
    /\ gestureStatus' = "IDLE"
    /\ NotAFrame(IF outcome = "failed" THEN "settlefailed" ELSE "settle")
    /\ UNCHANGED <<localRefs, loopGestureStatus, now, modeVars, renderVars,
                   isProcessingRef, eventLog, cloudRefs, thresholdVars, sessionMoved,
                   loopRefs, modelVars, requestVars, classified>>

\* ------------------------------------------------------ the remote step
\* processCloudMotion for a frame whose samples are data, dt after the previous
\* processed frame; the capture it fires is captureAndAnalyze up to the await.
ProcessCloudMotion(data, dt) ==
    /\ LET t == now + dt
           hadPrev == previousFrameRef # NoSample
           diff == IF hadPrev THEN DiffCount(data, previousFrameRef) ELSE 0
           fires == /\ hadPrev
                    /\ ~IsMoving(diff)
                    /\ isMotionDetectedRef
                    /\ HoldExceeded(t, stabilityTimerRef, loopStabilityThreshold)
                    /\ CaptureAllowed(t, lastCaptureTimeRef, isProcessingRef)
       IN /\ now' = t
          /\ op' = "cloud"
          /\ frame' = NoFrame
          /\ event' = NoEmission
          /\ cloud' = [hadPrev |-> hadPrev, diff |-> diff, flag |-> isMotionDetectedRef,
                       timer |-> stabilityTimerRef, prevCapture |-> lastCaptureTimeRef,
                       moved |-> sessionMoved, fired |-> fires,
                       exceeded |-> HoldExceeded(t, stabilityTimerRef,
                                                 loopStabilityThreshold),
                       sent |-> IF fires THEN loopRequest ELSE NoRequest,
                       before |-> gestureStatus]
          /\ previousFrameRef' = data
          /\ IF ~hadPrev
             THEN UNCHANGED <<gestureStatus, isMotionDetectedRef, stabilityTimerRef,
                              lastCaptureTimeRef, isProcessing, pending, sessionMoved>>
             ELSE IF IsMoving(diff)
             THEN /\ isMotionDetectedRef' = TRUE
                  /\ gestureStatus' = "MOVING"
                  /\ stabilityTimerRef' = t
                  /\ sessionMoved' = TRUE
                  /\ UNCHANGED <<lastCaptureTimeRef, isProcessing, pending>>
             ELSE IF isMotionDetectedRef
                     /\ HoldExceeded(t, stabilityTimerRef, loopStabilityThreshold)
             THEN IF CaptureAllowed(t, lastCaptureTimeRef, isProcessingRef)
                  THEN /\ isProcessing' = TRUE
                       /\ pending' = pending + 1
                       /\ lastCaptureTimeRef' = t
                       /\ isMotionDetectedRef' = FlagAfterCapture(isMotionDetectedRef)
                       /\ gestureStatus' = "CAPTURING"
                       /\ sessionMoved' = FALSE
                       /\ UNCHANGED stabilityTimerRef
                  ELSE /\ gestureStatus' = "STABLE"
                       /\ UNCHANGED <<isMotionDetectedRef, stabilityTimerRef,
                                      lastCaptureTimeRef, isProcessing, pending,
                                      sessionMoved>>
             ELSE IF ~isMotionDetectedRef
             THEN /\ gestureStatus' = "IDLE"
                  /\ UNCHANGED <<isMotionDetectedRef, stabilityTimerRef,
                                 lastCaptureTimeRef, isProcessing, pending, sessionMoved>>
             ELSE UNCHANGED <<gestureStatus, isMotionDetectedRef, stabilityTimerRef,
                              lastCaptureTimeRef, isProcessing, pending, sessionMoved>>
    /\ UNCHANGED <<localRefs, loopGestureStatus, modeVars, renderVars, isProcessingRef,
                   eventLog, thresholdVars, modelVars, requestVars, classified>>

\* onClick={() => setAutoCapture(!autoCapture)} with the autoCapture of the
\* committed render; a pending mode-switch effect queues its own setAutoCapture
\* behind the click's.
ToggleAutoCapture ==
    /\ DiscreteRender([EffectState EXCEPT !.autoCapture = ~rendered.autoCapture],
                      [rendered EXCEPT !.autoCapture = ~rendered.autoCapture],
                      RenderedDeps)
    /\ NotAFrame("toggle")
    /\ UNCHANGED <<untouched, loopGestureStatus, preferredMode, isActive, requestRef,
                   streamCalls, videoVars, isProcessing, pending, thresholdVars, videoTime,
                   gestureRecognizerRef, isInitializingRef, modelError,
                   isModelLoading, requestVars>>

\* ------------------------------------------------- geometric classifier
\* Landmarks are points of the unit square on a grid of 1/GridUnits: Point(x, y)
\* is the landmark {x: x / 128, y: y / 128}. A landmark set maps the indices
\* 0..20 to points.
GridUnits == 128

Point(x, y) == [x |-> x, y |-> y]

Wrist == Point(50, 90)
ThumbIp == Point(35, 70)
IndexMcp == Point(45, 60)
IndexPip == Point(45, 40)
MiddlePip == Point(50, 38)
RingPip == Point(55, 40)
PinkyPip == Point(62, 48)

\* Tip positions: farther from the wrist than the joint, nearer, at the same
\* distance; for the thumb also on either side of 0.06 from the raised index
\* tip (squared grid distances 58 and 61, 0.0595 and 0.0610); for the index
\* also beyond and inside the pointing deadband (13 and 12 grid units, 0.1016
\* and 0.0938, left and right of the base joint).
ThumbTips == {Point(25, 60), Point(45, 75), Point(30, 75), Point(42, 18), Point(50, 19)}
IndexTips == {Point(45, 25), Point(32, 30), Point(33, 30), Point(58, 30), Point(57, 30),
              Point(45, 55)}
MiddleTips == {Point(50, 20), Point(50, 55), Point(70, 42)}
RingTips == {Point(56, 25), Point(55, 58)}
PinkyTips == {Point(66, 35), Point(60, 62)}

Hand(thumbTip, indexTip, middleTip, ringTip, pinkyTip) ==
    [i \in 0..20 |->
        CASE i = 3 -> ThumbIp
          [] i = 4 -> thumbTip
          [] i = 5 -> IndexMcp
          [] i = 7 -> IndexPip
          [] i = 8 -> indexTip
          [] i = 11 -> MiddlePip
          [] i = 12 -> middleTip
          [] i = 15 -> RingPip
          [] i = 16 -> ringTip
          [] i = 19 -> PinkyPip
          [] i = 20 -> pinkyTip
          [] OTHER -> Wrist]

LandmarkSets ==
    {Hand(t, i, m, r, p) : t \in ThumbTips, i \in IndexTips, m \in MiddleTips,
                           r \in RingTips, p \in PinkyTips}

\* calcDistance(p1, p2) squared, in squared grid units. Grid coordinates are
\* binary fractions that doubles hold exactly, and so are their differences,
\* the squares of those (Math.pow(d, 2)) and the sums of two squares; Math.sqrt
\* is correctly rounded and takes different such sums, which lie at least
\* 1/16384 apart, to different doubles in the same order. The distances the
\* code computes therefore compare, ties included, as these integers do.
CalcDistanceSquared(p1, p2) ==
    (p1.x - p2.x) * (p1.x - p2.x) + (p1.y - p2.y) * (p1.y - p2.y)

IsFingerCurledInverted(landmarks, tipIdx, pipIdx, wrist) ==
    CalcDistanceSquared(landmarks[tipIdx], wrist)
        > CalcDistanceSquared(landmarks[pipIdx], wrist)

\* calcDistance(tip, wrist) < calcDistance(pip, wrist)
IsFingerCurled(landmarks, tipIdx, pipIdx, wrist) ==
    CalcDistanceSquared(landmarks[tipIdx], wrist)
        < CalcDistanceSquared(landmarks[pipIdx], wrist)

\* pinchDist < 0.06: no grid distance is within 0.0004 of 0.06, so the double
\* nearest to 0.06 separates the rounded distances as 6/100 separates the
\* exact ones.
IsPinch(p1, p2) ==
    CalcDistanceSquared(p1, p2) * 100 * 100
        < PINCH_DIST * PINCH_DIST * GridUnits * GridUnits

\* idxTip.x < idxMcp.x - 0.1, idxTip.x > idxMcp.x + 0.1: no grid offset is
\* within 0.001 of 0.1, so the rounding of the sum does not change the outcome.
Direction(idxTip, idxMcp) ==
    IF idxTip.x * 100 < idxMcp.x * 100 - POINT_DEADBAND * GridUnits THEN "left"
    ELSE IF idxTip.x * 100 > idxMcp.x * 100 + POINT_DEADBAND * GridUnits THEN "right"
    ELSE "none"

\* The openness of the five fingers, whether thumb and index tips pinch, and
\* where the index tip lies relative to its base joint.
ShapeOf(landmarks) ==
    LET wrist == landmarks[0]
    IN [thumbOpen |-> ~IsFingerCurled(landmarks, 4, 3, wrist),
        indexOpen |-> ~IsFingerCurled(landmarks, 8, 7, wrist),
        middleOpen |-> ~IsFingerCurled(landmarks, 12, 11, wrist),
        ringOpen |-> ~IsFingerCurled(landmarks, 16, 15, wrist),
        pinkyOpen |-> ~IsFingerCurled(landmarks, 20, 19, wrist),
        pinch |-> IsPinch(landmarks[4], landmarks[8]),
        direction |-> Direction(landmarks[8], landmarks[5])]

Shapes ==
    [thumbOpen : BOOLEAN, indexOpen : BOOLEAN, middleOpen : BOOLEAN,
     ringOpen : BOOLEAN, pinkyOpen : BOOLEAN, pinch : BOOLEAN,
     direction : {"left", "right", "none"}]

\* thumbOpen && pinkyOpen && !indexOpen && !middleOpen && !ringOpen
IsCallMe(s) ==
    s.thumbOpen /\ s.pinkyOpen /\ ~s.indexOpen /\ ~s.middleOpen /\ ~s.ringOpen

IsRockOnLoose(s) == s.indexOpen /\ s.pinkyOpen

\* indexOpen && pinkyOpen && !middleOpen && !ringOpen
IsRockOn(s) == s.indexOpen /\ s.pinkyOpen /\ ~s.middleOpen /\ ~s.ringOpen

\* pinchDist < 0.06 && middleOpen && ringOpen && pinkyOpen
IsSuper(s) == s.pinch /\ s.middleOpen /\ s.ringOpen /\ s.pinkyOpen

\* indexOpen && !middleOpen && !ringOpen && !pinkyOpen
IsPointing(s) == s.indexOpen /\ ~s.middleOpen /\ ~s.ringOpen /\ ~s.pinkyOpen

\* What the pointing rule returns or falls through to.
PointingLabel(s) ==
    IF s.direction = "left" THEN "Point_Left"
    ELSE IF s.direction = "right" THEN "Point_Right"
    ELSE Null

\* The rules in the order detectCustomGestures tries them.
LabelOf(s) ==
    IF IsCallMe(s) THEN "Call_Me"
    ELSE IF IsRockOn(s) THEN "Rock_On"
    ELSE IF IsSuper(s) THEN "Super"
    ELSE IF IsPointing(s) THEN PointingLabel(s)
    ELSE Null

DetectCustomGestures(landmarks) == LabelOf(ShapeOf(landmarks))

\* detectCustomGestures(results.landmarks[0]) applied to one landmark set.
Classify(landmarks) ==
    /\ classified' = [landmarks |-> landmarks, shape |-> ShapeOf(landmarks),
                      label |-> DetectCustomGestures(landmarks)]
    /\ NotAFrame("classify")
    /\ UNCHANGED <<localRefs, gestureStatus, loopGestureStatus, now, modeVars, callVars,
                   renderVars, eventLog, cloudRefs, thresholdVars, sessionMoved, loopRefs,
                   modelVars, requestVars>>

\* The rules of detectCustomGestures applied to one combination of finger
\* openness, pinch and index direction.
ClassifyShape(s) ==
    /\ classified' = [landmarks |-> <<>>, shape |-> s, label |-> LabelOf(s)]
    /\ NotAFrame("shape")
    /\ UNCHANGED <<localRefs, gestureStatus, loopGestureStatus, now, modeVars, callVars,
                   renderVars, eventLog, cloudRefs, thresholdVars, sessionMoved, loopRefs,
                   modelVars, requestVars>>


\* ------------------------------------------------------------- settings
\* <input type="range" min="500" max="3000" step="250">: three of its values.
StabilityThresholds == {500, 1000, 1500}

\* RecognitionMode.WORD, RecognitionMode.SENTENCE
RecognitionModes == {"WORD", "SENTENCE"}

\* Two of the LANGUAGES codes.
Languages == {"Auto", "Hindi"}

\* onChange={(e) => setStabilityThreshold(parseInt(e.target.value))}
SetStabilityThreshold(v) ==
    /\ v # stabilityThreshold
    /\ stabilityThreshold' = v
    /\ DiscreteRender(EffectState, rendered, RenderedDeps)
    /\ NotAFrame("threshold")
    /\ UNCHANGED <<untouched, loopGestureStatus, preferredMode, isActive, requestRef,
                   streamCalls, videoVars, isProcessing, pending, loopStabilityThreshold,
                   videoTime, gestureRecognizerRef, isInitializingRef, modelError,
                   isModelLoading, requestVars>>

\* onClick={() => setMode(RecognitionMode.WORD)} and its SENTENCE twin
SetMode(m) ==
    /\ m # mode
    /\ mode' = m
    /\ DiscreteRender(EffectState, rendered, RenderedDeps)
    /\ NotAFrame("scope")
    /\ UNCHANGED <<untouched, loopGestureStatus, preferredMode, isActive, requestRef,
                   streamCalls, videoVars, isProcessing, pending, thresholdVars, videoTime,
                   gestureRecognizerRef, isInitializingRef, modelError,
                   isModelLoading, selectedLanguage, loopRequest>>

\* onChange={(e) => setSelectedLanguage(e.target.value)}; disabled in LOCAL mode
SetSelectedLanguage(l) ==
    /\ EffectiveMode(rendered.isOnline, preferredMode) # "LOCAL"
    /\ l # selectedLanguage
    /\ selectedLanguage' = l
    /\ DiscreteRender(EffectState, rendered, RenderedDeps)
    /\ NotAFrame("language")
    /\ UNCHANGED <<untouched, loopGestureStatus, preferredMode, isActive, requestRef,
                   streamCalls, videoVars, isProcessing, pending, thresholdVars, videoTime,
                   gestureRecognizerRef, isInitializingRef, modelError,
                   isModelLoading, mode, loopRequest>>

\* ------------------------------------------------------------- the loop
RunsLocalAlways(modeRef) == TRUE

\* effectiveModeRef.current === 'LOCAL'
RunsLocal(modeRef) == modeRef = "LOCAL"

\* effectiveModeRef.current === 'CLOUD' && autoCaptureRef.current
RunsCloud(modeRef, auto) == modeRef = "CLOUD" /\ auto

\* autoCaptureRef.current && !isModelLoadingRef.current && gestureRecognizerRef.current
LocalStepRuns(auto, loading, recognizer) == auto /\ ~loading /\ recognizer

\* The timestamp requestAnimationFrame passes at wall-clock time t.
LoopTimestamp(t) == t - TimeOrigin

ThrottleGpuOnly(cpu) == GPU_THROTTLE_MS

\* const throttle = usingCpuBackendRef.current ? 150 : 100
Throttle(cpu) == IF cpu THEN CPU_THROTTLE_MS ELSE GPU_THROTTLE_MS

PassesThrottleGe(timestamp, last, throttle) == timestamp - last >= throttle

\* timestamp - lastProcessedTimeRef.current > throttle
PassesThrottle(timestamp, last, throttle) == timestamp - last > throttle

\* video.currentTime <= lastVideoTimeRef.current
SkipsFrame(time, last) == time <= last

\* if (duration > 20 && !usingCpuBackendRef.current) usingCpuBackendRef.current = true
CpuFlagAfterCall(flag, duration) == flag \/ duration > SLOW_INFERENCE_MS

\* video.readyState !== 4
NotEnoughData(ready) == ~ready

\* Where the try block of processLocalFrame throws: nowhere, in the tracker
\* call (recognizeForVideo, before the duration is measured), or after the
\* duration test, while the result is drawn and read.
Throws == {"none", "call", "result"}

\* The loop time since the previous step logged at last.
Since(timestamp, last) == IF last = -1 THEN -1 ELSE timestamp - last

\* A tick that changes nothing but the clocks.
IdleTick(dt) ==
    /\ now' = now + dt
    /\ op' = "tick"
    /\ frame' = NoFrame
    /\ event' = NoEmission
    /\ cloud' = NoCloud
    /\ UNCHANGED <<localRefs, gestureStatus, loopGestureStatus, modeVars, renderVars,
                   callVars, eventLog, cloudRefs, thresholdVars, sessionMoved,
                   modelVars, requestVars, classified>>

\* processingLoop(timestamp), dt after the previous tick: fresh says whether
\* the video has advanced; thrown, hands, gesture, custom and duration are what
\* the tracker call and the classifier do, find and take; data are the samples
\* the motion step reads.
ProcessingLoop(fresh, thrown, hands, gesture, custom, duration, data, dt) ==
    /\ requestRef
    /\ videoTime' = IF fresh /\ srcObject THEN videoTime + dt ELSE videoTime
    /\ LET timestamp == LoopTimestamp(now + dt)
       IN IF NotEnoughData(videoReady)
          THEN /\ tick' = NoTick
               /\ IdleTick(dt)
               /\ UNCHANGED <<lastProcessedTimeRef, usingCpuBackendRef,
                              lastVideoTimeRef, loopLog>>
          ELSE IF RunsLocal(effectiveModeRef)
          THEN IF PassesThrottle(timestamp, lastProcessedTimeRef,
                                 Throttle(usingCpuBackendRef))
               THEN /\ lastProcessedTimeRef' = timestamp
                    /\ IF LocalStepRuns(autoCaptureRef, isModelLoadingRef,
                                        gestureRecognizerRef)
                       THEN /\ loopLog' = [loopLog EXCEPT !.lastLocal = timestamp]
                            /\ IF SkipsFrame(videoTime', lastVideoTimeRef)
                               THEN /\ tick' = [NoTick EXCEPT
                                                   !.local = TRUE,
                                                   !.fresh = fresh,
                                                   !.cpu = usingCpuBackendRef,
                                                   !.sinceLocal =
                                                       Since(timestamp, loopLog.lastLocal)]
                                    /\ IdleTick(dt)
                                    /\ UNCHANGED <<usingCpuBackendRef, lastVideoTimeRef>>
                               ELSE /\ tick' = [NoTick EXCEPT
                                                   !.local = TRUE,
                                                   !.called = TRUE,
                                                   !.fresh = fresh,
                                                   !.cpu = usingCpuBackendRef,
                                                   !.sinceLocal =
                                                       Since(timestamp, loopLog.lastLocal),
                                                   !.duration =
                                                       IF thrown = "call" THEN 0
                                                       ELSE duration]
                                    /\ lastVideoTimeRef' = videoTime'
                                    /\ usingCpuBackendRef' =
                                           IF thrown = "call" THEN usingCpuBackendRef
                                           ELSE CpuFlagAfterCall(usingCpuBackendRef,
                                                                 duration)
                                    /\ IF thrown = "none"
                                       THEN ProcessLocalFrame(hands, gesture, custom, dt)
                                       ELSE ProcessLocalFrameFailed(dt)
                       ELSE /\ tick' = NoTick
                            /\ IdleTick(dt)
                            /\ UNCHANGED <<usingCpuBackendRef, lastVideoTimeRef, loopLog>>
               ELSE /\ tick' = NoTick
                    /\ IdleTick(dt)
                    /\ UNCHANGED <<lastProcessedTimeRef, usingCpuBackendRef,
                                   lastVideoTimeRef, loopLog>>
          ELSE IF RunsCloud(effectiveModeRef, autoCaptureRef)
                  /\ PassesThrottle(timestamp, lastProcessedTimeRef, CLOUD_THROTTLE_MS)
          THEN /\ lastProcessedTimeRef' = timestamp
               /\ loopLog' = [loopLog EXCEPT !.lastCloud = timestamp]
               /\ tick' = [NoTick EXCEPT
                              !.cloud = TRUE,
                              !.cpu = usingCpuBackendRef,
                              !.sinceCloud = Since(timestamp, loopLog.lastCloud)]
               /\ ProcessCloudMotion(data, dt)
               /\ UNCHANGED <<usingCpuBackendRef, lastVideoTimeRef>>
          ELSE /\ tick' = NoTick
               /\ IdleTick(dt)
               /\ UNCHANGED <<lastProcessedTimeRef, usingCpuBackendRef,
                              lastVideoTimeRef, loopLog>>

\* A tick of the loop TickGap after the tick before and before the wall clock
\* reaches StartTime + horizon, with a tracker that finds a Thumb_Up hand or
\* none.
LoopTick(fresh, thrown, hands, duration, data, horizon) ==
    /\ now + TickGap <= StartTime + horizon
    /\ ProcessingLoop(fresh, thrown, hands,
                      IF hands THEN ThumbUp ELSE NoGesture,
                      Null, duration, data, TickGap)

\* A tick of the loop over a playing video, FrameGap or LongGap after the tick
\* before and before the wall clock reaches StartTime + horizon, with a
\* tracker call of 20 ms: thrown says whether the try block throws, gestures
\* and customs are what the tracker and the classifier may report for a hand.
FrameTick(thrown, gestures, customs, horizon) ==
    \E local \in {RunsLocal(effectiveModeRef)}, dt \in Gaps :
        \E hands \in (IF local /\ ~thrown THEN BOOLEAN ELSE {FALSE}),
           data \in (IF local THEN {Dark} ELSE Scenes) :
            \E gesture \in (IF hands THEN gestures ELSE {NoGesture}),
               custom \in (IF hands THEN customs ELSE {Null}) :
                /\ now + dt <= StartTime + horizon
                /\ ProcessingLoop(TRUE, IF thrown THEN "call" ELSE "none", hands,
                                  gesture, custom, SLOW_INFERENCE_MS, data, dt)

Frame == FrameTick(FALSE, TrackerGestures, CustomResults, Horizon)

\* The same tick with a try block that throws.
FailedFrame == FrameTick(TRUE, TrackerGestures, CustomResults, Horizon)

\* The same tick in front of a user who holds Thumb_Up or shows no hand.
HeldFrame == FrameTick(FALSE, {ThumbUp}, {Null}, Horizon)

\* The same tick in front of a user who shows Thumb_Up or Call_Me or no hand.
SignFrame == FrameTick(FALSE, {ThumbUp}, CustomResults, Horizon)

\* The same tick within the shorter LocalSessionHorizon, the classifier
\* reporting nothing.
SessionFrame == FrameTick(FALSE, TrackerGestures, {Null}, LocalSessionHorizon)

\* A tick of the loop over a playing video with nobody in front of the camera,
\* one of gaps after the tick before and before the wall clock reaches
\* StartTime + horizon.
CloudFrame(gaps, horizon) ==
    \E data \in (IF RunsLocal(effectiveModeRef) THEN {Dark} ELSE Scenes),
       dt \in gaps :
        /\ now + dt <= StartTime + horizon
        /\ ProcessingLoop(TRUE, "none", FALSE, NoGesture, Null, SLOW_INFERENCE_MS,
                          data, dt)

\* ------------------------------------------------------- model loading
\* loadModel after its awaits, ending with outcome.
LoadSettle(outcome) ==
    /\ isInitializingRef
    /\ isInitializingRef' = FALSE
    /\ isModelLoading' = FALSE
    /\ gestureRecognizerRef' = (outcome # "failed")
    /\ usingCpuBackendRef' = CASE outcome = "gpu" -> FALSE
                               [] outcome = "cpu" -> TRUE
                               [] OTHER -> usingCpuBackendRef
    /\ modelError' = (outcome = "failed")
    /\ NotAFrame("loaded")
    /\ UNCHANGED <<localRefs, gestureStatus, loopGestureStatus, now, modeVars, callVars,
                   renderVars, eventLog, cloudRefs, thresholdVars, sessionMoved,
                   lastProcessedTimeRef, videoTime, lastVideoTimeRef, loopLog,
                   isModelLoadingRef, requestVars, classified>>

RetryShownAlways(effective, error) == TRUE

\* {effectiveMode === 'LOCAL' && ( ... {modelError && ( ...
\* <button onClick={handleRetryModelLoad}> ... )} ... )}
RetryShown(effective, error) == effective = "LOCAL" /\ error

\* handleRetryModelLoad, a click on the retry button of the committed render:
\* drop the recognizer, then loadModel up to its first await (which returns at
\* once while another loadModel call is running).
HandleRetryModelLoad ==
    /\ RetryShown(EffectiveMode(rendered.isOnline, preferredMode), rendered.modelError)
    /\ gestureRecognizerRef' = FALSE
    /\ IF isInitializingRef
       THEN /\ DiscreteRender(EffectState, rendered, RenderedDeps)
            /\ UNCHANGED <<isInitializingRef, isModelLoading, modelError>>
       ELSE /\ isInitializingRef' = TRUE
            /\ isModelLoading' = TRUE
            /\ modelError' = FALSE
            /\ DiscreteRender(EffectState,
                              [rendered EXCEPT !.isModelLoading = TRUE,
                                               !.modelError = FALSE],
                              RenderedDeps)
    /\ NotAFrame("retry")
    /\ UNCHANGED <<untouched, loopGestureStatus, preferredMode, isActive, requestRef,
                   streamCalls, videoVars, isProcessing, pending, thresholdVars, videoTime,
                   requestVars>>

\* -------------------------------------------------------- specifications
NextFaults ==
    \/ Frame
    \/ FailedFrame

\* The local path with tracker calls that throw.
SpecFaults == InitLate /\ [][NextFaults]_vars

NextFrames == Frame

\* The local path in one session: the loop's ticks.
SpecFrames == Init /\ [][NextFrames]_vars

NextLocal ==
    \/ HeldFrame
    \/ \E m \in {"LOCAL", "CLOUD"} : SetPreferredMode(m)
    \/ Render
    \/ PassiveEffects

\* The local path of a user holding one sign, with mode switches.
SpecLocal == InitLate /\ [][NextLocal]_vars

NextSession ==
    \/ SessionFrame
    \/ \E b \in BOOLEAN : SetOnline(b)
    \/ \E m \in {"LOCAL", "CLOUD"} : SetPreferredMode(m)
    \/ Render
    \/ PassiveEffects

\* The local path with mode switches and the network going off and on.
SpecSession == InitLate /\ [][NextSession]_vars

NextCalls ==
    \/ SignFrame
    \/ Render
    \/ PassiveEffects
    \/ ManualCapture
    \/ \E outcome \in Outcomes : SettleAnalysis(outcome)

\* The local path with the manual remote analysis call.
SpecCalls == InitLate /\ [][NextCalls]_vars

NextCloud ==
    \/ CloudFrame(CloudGaps, CloudHorizon)
    \/ ToggleAutoCapture
    \/ Render
    \/ PassiveEffects
    \/ \E outcome \in Outcomes : SettleAnalysis(outcome)

\* The remote path in one session.
SpecCloud == InitCloud /\ [][NextCloud]_vars

NextCloudRate ==
    \/ CloudFrame(RateGaps, RateHorizon)
    \/ ToggleAutoCapture
    \/ Render
    \/ PassiveEffects
    \/ \E outcome \in Outcomes : SettleAnalysis(outcome)

\* The remote path in one session of a slower loop, long enough for the rate
\* limit to pass.
SpecCloudRate == InitCloud /\ [][NextCloudRate]_vars

NextCloudSession ==
    \/ CloudFrame(CloudGaps, SessionHorizon)
    \/ ToggleAutoCapture
    \/ Render
    \/ PassiveEffects
    \/ \E m \in {"LOCAL", "CLOUD"} : SetPreferredMode(m)
    \/ ManualCapture
    \/ \E outcome \in Outcomes : SettleAnalysis(outcome)

\* The remote path with mode switches and manual captures.
SpecCloudSession == InitCloud /\ [][NextCloudSession]_vars

NextCloudConfig ==
    \/ CloudFrame(CloudGaps, ConfigHorizon)
    \/ ToggleAutoCapture
    \/ Render
    \/ PassiveEffects
    \/ \E v \in StabilityThresholds : SetStabilityThreshold(v)
    \/ \E m \in RecognitionModes : SetMode(m)
    \/ \E l \in Languages : SetSelectedLanguage(l)

\* The remote path in one session while the user changes the settings.
SpecCloudConfig == InitCloud /\ [][NextCloudConfig]_vars

NextLoop ==
    \/ \E thrown \in Throws, duration \in Durations :
           LoopTick(TRUE, thrown, TRUE, duration, Dark, LoopHorizon)
    \/ \E b \in BOOLEAN : VideoReadyState(b)
    \/ \E b \in BOOLEAN : SetOnline(b)
    \/ \E m \in {"LOCAL", "CLOUD"} : SetPreferredMode(m)
    \/ ToggleAutoCapture
    \/ Render
    \/ PassiveEffects
    \/ \E outcome \in LoadOutcomes : LoadSettle(outcome)
    \/ HandleRetryModelLoad

\* The per-frame loop with its throttle, a stream that gains and loses
\* readiness, tracker calls that throw, model loading, mode switches and the
\* network going off and on.
SpecLoop == InitLoop /\ [][NextLoop]_vars

NextRestart ==
    \/ \E fresh \in BOOLEAN, hands \in BOOLEAN :
           LoopTick(fresh, "none", hands, SLOW_INFERENCE_MS, Dark, RestartHorizon)
    \/ RestartCamera
    \/ \E i \in 1..MaxStreamCalls : HandleStreamSuccess(i)
    \/ OnLoadedMetadata
    \/ \E j \in 1..MaxStreamCalls : PlayThen(j)
    \/ \E j \in 1..MaxStreamCalls : PlayCatch(j)
    \/ \E b \in BOOLEAN : VideoReadyState(b)
    \/ Render
    \/ PassiveEffects

\* The per-frame loop on the local path with camera restarts.
SpecRestart == Init /\ [][NextRestart]_vars

NextClassifier ==
    \/ \E landmarks \in LandmarkSets : Classify(landmarks)
    \/ \E s \in Shapes : ClassifyShape(s)

\* The geometric classifier applied to landmark sets.
SpecClassifier == Init /\ [][NextClassifier]_vars

\* ----------------------------------------------------------------- claims
\* How often category c occurs in window h.
Occurrences(h, c) == Cardinality({i \in DOMAIN h : h[i].category = c})

\* c is a label (not "None") that reaches the confirmation threshold in h.
Attested(h, c) == c # "None" /\ Occurrences(h, c) >= CONFIRMATION_THRESHOLD

AttestedLabels(h) == {c \in {h[i].category : i \in DOMAIN h} : Attested(h, c)}

\* The last step confirmed the label that the confirmation before it confirmed.
Refired == event.label # Null /\ event.prev.label = event.label

\* C1 as stated: a label is confirmed twice in a row (no other label confirmed
\* in between) only if at least COOLDOWN_MS separate the two confirmations.
C1_SameLabelNeedsCooldown ==
    Refired => event.timestamp - event.prev.timestamp >= COOLDOWN_MS

\* C1 amended: a label is confirmed twice in a row only if at least COOLDOWN_MS
\* separate the two confirmations or the last-confirmed memory was cleared in
\* between, by a frame without a hand or by the mode-switch effect.
C1_SameLabelNeedsCooldownOrReset ==
    Refired =>
        \/ event.timestamp - event.prev.timestamp >= COOLDOWN_MS
        \/ event.reset # "no"

C1_Witness == Refired /\ event.reset = "modeswitch"

\* C2: a processed frame emits a confirmation exactly when a hand is present,
\* a label other than "None" reaches the threshold in the window, it differs
\* from the last confirmed label, and more than COOLDOWN_MS have passed since
\* the last confirmation or no last-confirmed label is recorded; the emitting
\* frame sets the status to CONFIRMED, the last confirmed label to the winner
\* and the last confirmation time to the frame's time.
C2_ConfirmIff ==
    [][op' = "frame" =>
        LET last == lastConfirmedGestureRef
            due == /\ frame'.hands
                   /\ \E c \in AttestedLabels(gestureHistoryRef') :
                          /\ c # last
                          /\ now' - gestureCooldownRef > COOLDOWN_MS \/ last = Null
        IN /\ (event'.label # Null) <=> due
           /\ event'.label # Null =>
                  /\ gestureStatus' = "CONFIRMED"
                  /\ Attested(gestureHistoryRef', event'.label)
                  /\ lastConfirmedGestureRef' = event'.label
                  /\ gestureCooldownRef' = now'
                  /\ event'.timestamp = now']_vars

C2_Witness ==
    /\ op = "frame"
    /\ event.label # Null
    /\ event.prev.label \notin {Null, event.label}
    /\ event.reset = "no"
    /\ gestureStatus = "CONFIRMED"

\* C3: after a processed frame without a hand the status is IDLE.
C3_NoHandIdle ==
    (op = "frame" /\ ~frame.hands) => gestureStatus = "IDLE"

\* C4: after a processed frame without a hand the history is empty, the last
\* confirmed label is cleared, and the frame emitted no confirmation.
C4_NoHandClears ==
    (op = "frame" /\ ~frame.hands) =>
        /\ gestureHistoryRef = <<>>
        /\ lastConfirmedGestureRef = Null
        /\ event = NoEmission

C4_Witness ==
    /\ op = "frame"
    /\ ~frame.hands
    /\ lastEvent.label # Null
    /\ lastEvent.timestamp + FrameGap = now

\* C5: once a frame without a hand has cleared the memory of a confirmed label,
\* a frame on which that label reaches the threshold again confirms it anew,
\* however little time has passed since the earlier confirmation.
C5_HandLossRefires ==
    [][(/\ op' = "frame"
        /\ frame'.hands
        /\ resetSince = "handloss"
        /\ lastConfirmedGestureRef = Null
        /\ Attested(gestureHistoryRef', lastEvent.label))
       => (/\ event'.label = lastEvent.label
           /\ gestureStatus' = "CONFIRMED")]_vars

C5_Witness ==
    /\ Refired
    /\ event.reset = "handloss"
    /\ event.timestamp - event.prev.timestamp < COOLDOWN_MS

\* C6: a frame with a hand on which the last confirmed label reaches the
\* threshold sets the status to STABLE, emits nothing and leaves the last
\* confirmed label and the last confirmation time as they were.
C6_HeldIsStable ==
    [][(/\ op' = "frame"
        /\ frame'.hands
        /\ Attested(gestureHistoryRef', lastConfirmedGestureRef))
       => (/\ gestureStatus' = "STABLE"
           /\ event' = NoEmission
           /\ lastConfirmedGestureRef' = lastConfirmedGestureRef
           /\ gestureCooldownRef' = gestureCooldownRef)]_vars

C6_Witness ==
    /\ op = "frame"
    /\ frame.hands
    /\ gestureStatus = "STABLE"
    /\ Attested(gestureHistoryRef, lastConfirmedGestureRef)

\* C7: after a frame with a hand on which no label other than "None" reaches
\* the threshold, the status is MOVING and the frame emitted no confirmation.
C7_AmbiguousIsMoving ==
    (op = "frame" /\ frame.hands /\ AttestedLabels(gestureHistoryRef) = {}) =>
        /\ gestureStatus = "MOVING"
        /\ event = NoEmission

C7_Witness ==
    /\ op = "frame"
    /\ frame.hands
    /\ Occurrences(gestureHistoryRef, "None") >= CONFIRMATION_THRESHOLD
    /\ gestureStatus = "MOVING"

\* C8: a frame with a hand on which a label reaches the threshold that differs
\* from the recorded last confirmed label, no more than COOLDOWN_MS after the
\* last confirmation, leaves the status MOVING and emits nothing.
C8_SuppressedIsMoving ==
    [][(/\ op' = "frame"
        /\ frame'.hands
        /\ lastConfirmedGestureRef # Null
        /\ now' - gestureCooldownRef <= COOLDOWN_MS
        /\ \E c \in AttestedLabels(gestureHistoryRef') : c # lastConfirmedGestureRef)
       => (/\ gestureStatus' = "MOVING"
           /\ event' = NoEmission)]_vars

\* C9 as stated: when the status is STABLE after a frame, a next frame with the
\* same observation leaves it STABLE and emits nothing.
C9_SameObservationStaysStable ==
    [][(/\ gestureStatus = "STABLE"
        /\ op = "frame" /\ frame.hands
        /\ op' = "frame" /\ frame'.hands
        /\ frame'.obs = frame.obs)
       => (/\ gestureStatus' = "STABLE"
           /\ event' = NoEmission)]_vars

\* C9 amended: when the status is STABLE after a frame whose observation has
\* the last confirmed label as its category, a next frame with the same
\* observation leaves it STABLE and emits nothing.
C9_HeldObservationStaysStable ==
    [][(/\ gestureStatus = "STABLE"
        /\ op = "frame" /\ frame.hands
        /\ frame.obs.category = lastConfirmedGestureRef
        /\ op' = "frame" /\ frame'.hands
        /\ frame'.obs = frame.obs)
       => (/\ gestureStatus' = "STABLE"
           /\ event' = NoEmission)]_vars

C9_Witness ==
    /\ op = "frame"
    /\ frame.hands
    /\ gestureStatus = "STABLE"
    /\ frame.obs.category = lastConfirmedGestureRef
    /\ Occurrences(gestureHistoryRef, lastConfirmedGestureRef) = HISTORY_SIZE

\* C10: the history never holds more than HISTORY_SIZE observations, and a
\* frame with a hand appends its observation last, dropping exactly the oldest
\* one when the history was full.
C10_BoundedArrivalOrder ==
    /\ [](Len(gestureHistoryRef) <= HISTORY_SIZE)
    /\ [][(op' = "frame" /\ frame'.hands) =>
            gestureHistoryRef' =
                IF Len(gestureHistoryRef) = HISTORY_SIZE
                THEN Append(Tail(gestureHistoryRef), frame'.obs)
                ELSE Append(gestureHistoryRef, frame'.obs)]_vars

C10_Witness ==
    /\ op = "frame"
    /\ frame.evicted
    /\ Len(gestureHistoryRef) = HISTORY_SIZE

\* The categories that occur in window h.
Categories(h) == {h[i].category : i \in DOMAIN h}

\* The categories of maximal frequency in window h.
TopCategories(h) ==
    {c \in Categories(h) : \A d \in Categories(h) : Occurrences(h, d) <= Occurrences(h, c)}

\* The position of the oldest observation of category c in window h.
FirstIndex(h, c) ==
    CHOOSE i \in DOMAIN h :
        h[i].category = c /\ \A j \in 1..(i - 1) : h[j].category # c

\* How many of the newest observations of window h share the newest category.
TrailingRun(h) ==
    IF h = <<>> THEN 0
    ELSE Cardinality({i \in DOMAIN h :
                        \A j \in i..Len(h) : h[j].category = h[Len(h)].category})

\* h is k observations of one category followed by m of another.
IsBlocks(h, k, m) ==
    /\ Len(h) = k + m
    /\ \A i \in 1..k : h[i].category = h[1].category
    /\ \A i \in (k + 1)..(k + m) : h[i].category = h[k + 1].category
    /\ h[k + 1].category # h[1].category

\* C11: after a frame with a hand has pushed its observation, the vote's winner
\* is a category of maximal frequency in the window and its count is that
\* frequency; a full window of one label gives that label with count 8, and
\* 5 observations of A followed by 3 of B give A with count 5.
C11_VoteIsMajority ==
    (op = "frame" /\ frame.hands) =>
        LET h == gestureHistoryRef
            v == Vote(h)
        IN /\ v.smoothedGesture \in TopCategories(h)
           /\ v.maxCount = Occurrences(h, v.smoothedGesture)
           /\ (Len(h) = HISTORY_SIZE /\ Cardinality(Categories(h)) = 1) =>
                  v = [smoothedGesture |-> h[1].category, maxCount |-> HISTORY_SIZE]
           /\ IsBlocks(h, CONFIRMATION_THRESHOLD, HISTORY_SIZE - CONFIRMATION_THRESHOLD) =>
                  v = [smoothedGesture |-> h[1].category,
                       maxCount |-> CONFIRMATION_THRESHOLD]

C11_Witness ==
    /\ op = "frame"
    /\ frame.hands
    /\ IsBlocks(gestureHistoryRef, CONFIRMATION_THRESHOLD,
                HISTORY_SIZE - CONFIRMATION_THRESHOLD)
    /\ frame.obs.category # "None"
    /\ gestureHistoryRef[1].category # "None"

\* C12: when several categories share the maximal frequency in the window, the
\* vote's winner is the one of them whose oldest observation is oldest.
C12_TieGoesToOldest ==
    (op = "frame" /\ frame.hands) =>
        LET h == gestureHistoryRef
        IN \A c \in TopCategories(h) :
               FirstIndex(h, Vote(h).smoothedGesture) <= FirstIndex(h, c)

C12_Witness ==
    /\ op = "frame"
    /\ frame.hands
    /\ Len(gestureHistoryRef) = HISTORY_SIZE
    /\ Cardinality(TopCategories(gestureHistoryRef)) = 2
    /\ Vote(gestureHistoryRef).smoothedGesture # gestureHistoryRef[HISTORY_SIZE].category
    /\ Vote(gestureHistoryRef).smoothedGesture = gestureHistoryRef[1].category

\* C13: with a hand present, once the same label other than "None" has been
\* observed on CONFIRMATION_THRESHOLD consecutive frames (at most HISTORY_SIZE
\* frames), whatever the window held before, the vote's winner is that label
\* with count at least CONFIRMATION_THRESHOLD, and stays so while it is held.
C13_HeldLabelWinsWithinCapacity ==
    (/\ op = "frame"
     /\ frame.hands
     /\ frame.obs.category # "None"
     /\ TrailingRun(gestureHistoryRef) >= CONFIRMATION_THRESHOLD)
    => (/\ CONFIRMATION_THRESHOLD <= HISTORY_SIZE
        /\ Vote(gestureHistoryRef).smoothedGesture = frame.obs.category
        /\ Vote(gestureHistoryRef).maxCount >= CONFIRMATION_THRESHOLD)

C13_Witness ==
    /\ op = "frame"
    /\ frame.hands
    /\ frame.obs.category # "None"
    /\ Len(gestureHistoryRef) = HISTORY_SIZE
    /\ TrailingRun(gestureHistoryRef) = CONFIRMATION_THRESHOLD
    /\ gestureHistoryRef[1].category \notin {"None", frame.obs.category}

\* The last step was a remote-path frame that was differenced against a
\* previous sample and not classified as moving.
StillFrame == op = "cloud" /\ cloud.hadPrev /\ cloud.diff <= MOTION_MIN_DIFF

\* The last step was a still frame on which motion had been detected and the
\* scene had stayed still for longer than stabilityThreshold.
SettledFrame ==
    /\ StillFrame
    /\ cloud.flag
    /\ now - cloud.timer > stabilityThreshold

\* C14 as stated: a still frame with motion detected before and the hold time
\* exceeded fires the capture (status CAPTURING, motion flag reset), and a
\* capture fires only if motion was detected since the previous capture.
C14_SettledSceneFires ==
    /\ SettledFrame =>
           (cloud.fired /\ gestureStatus = "CAPTURING" /\ ~isMotionDetectedRef)
    /\ (op = "cloud" /\ cloud.fired) => cloud.moved

\* C14 amended: a still frame with motion detected before and the hold time
\* exceeded fires the capture (status CAPTURING, motion flag reset) provided
\* the processing guard is clear and more than CAPTURE_INTERVAL_MS have passed
\* since the last capture; and a capture fires only on such a frame, and only
\* if motion was detected since the previous capture.
C14_SettledSceneFiresWhenAllowed ==
    /\ (/\ SettledFrame
         /\ ~isProcessingRef
         /\ now - cloud.prevCapture > CAPTURE_INTERVAL_MS)
        => (cloud.fired /\ gestureStatus = "CAPTURING" /\ ~isMotionDetectedRef)
    /\ (op = "cloud" /\ cloud.fired) => (SettledFrame /\ cloud.moved)

C14_Witness ==
    /\ SettledFrame
    /\ cloud.fired
    /\ gestureStatus = "CAPTURING"
    /\ now - cloud.timer = stabilityThreshold + CloudGap

\* C15: the trigger fires a capture only if more than CAPTURE_INTERVAL_MS have
\* passed since the capture it fired before, firing records the frame's time as
\* the last capture time, and nothing else changes the last capture time.
C15_CapturesApart ==
    /\ []((op = "cloud" /\ cloud.fired) =>
             (/\ now - cloud.prevCapture > CAPTURE_INTERVAL_MS
              /\ lastCaptureTimeRef = now))
    /\ [][lastCaptureTimeRef' # lastCaptureTimeRef => (op' = "cloud" /\ cloud'.fired)]_vars

C15_Witness ==
    /\ op = "cloud"
    /\ cloud.fired
    /\ cloud.prevCapture > 0
    /\ now - cloud.prevCapture = CAPTURE_INTERVAL_MS + RateGap

\* C16: a remote-path frame with a previous sample whose difference count
\* exceeds MOTION_MIN_DIFF sets the status to MOVING, sets the motion flag,
\* resets the stability timer to the frame's time and fires no capture; a
\* count of exactly MOTION_MIN_DIFF does not reset the timer or set the flag.
C16_MotionResetsTimer ==
    /\ (op = "cloud" /\ cloud.hadPrev /\ cloud.diff > MOTION_MIN_DIFF) =>
           (/\ gestureStatus = "MOVING"
            /\ isMotionDetectedRef
            /\ stabilityTimerRef = now
            /\ ~cloud.fired
            /\ lastCaptureTimeRef = cloud.prevCapture)
    /\ (op = "cloud" /\ cloud.hadPrev /\ cloud.diff = MOTION_MIN_DIFF) =>
           (/\ stabilityTimerRef = cloud.timer
            /\ cloud.flag \/ ~isMotionDetectedRef)

C16_Witness ==
    /\ op = "cloud"
    /\ cloud.hadPrev
    /\ cloud.diff = MOTION_MIN_DIFF + 1
    /\ ~cloud.flag
    /\ gestureStatus = "MOVING"

\* C17: after a still frame for which motion had been detected and that did
\* not fire the capture, the status is STABLE.
C17_UnfiredStillIsStable ==
    (StillFrame /\ cloud.flag /\ ~cloud.fired) => gestureStatus = "STABLE"

\* C18: after a still frame before which no frame had been classified as
\* moving since the session started or the last capture fired, the status is
\* IDLE and the frame fired no capture.
C18_NoMotionIsIdle ==
    (StillFrame /\ ~cloud.moved) => (gestureStatus = "IDLE" /\ ~cloud.fired)

\* C19: at most one remote analysis call is outstanding at any time.
C19_OneCallOutstanding == pending <= 1

\* C20: when a started remote analysis call has settled, with a text or with a
\* failure, the processing flag is cleared and the status is IDLE; and the flag
\* is never left set once no call is outstanding.
C20_SettleRecovers ==
    /\ op \in {"settle", "settlefailed"} => (~isProcessing /\ gestureStatus = "IDLE")
    /\ pending = 0 => ~isProcessing

C20_Witness ==
    /\ op = "settlefailed"
    /\ lastCaptureTimeRef > 0
    /\ pending = 0
    /\ ~isProcessing
    /\ gestureStatus = "IDLE"

\* C21 as stated: every run of the mode-switch effect (after a mode switch, the
\* forced switch when going offline, a session stop or start) leaves the
\* observation history empty, the last confirmed label cleared and the status
\* IDLE, and no other step changes the mode the loop reads, so the first frame
\* of the new mode or session finds nothing from before the switch.
C21_SwitchClearsLocalState ==
    [][(effectiveModeRef' # effectiveModeRef \/ modeEffectDeps' # modeEffectDeps) =>
           /\ gestureHistoryRef' = <<>>
           /\ lastConfirmedGestureRef' = Null
           /\ gestureStatus' = "IDLE"]_vars

\* C22 as stated: every run of the mode-switch effect leaves the motion
\* reference sample discarded, the motion flag cleared and the stability timer
\* at its initial value.
C22_SwitchClearsMotionState ==
    [][(effectiveModeRef' # effectiveModeRef \/ modeEffectDeps' # modeEffectDeps) =>
           /\ previousFrameRef' = NoSample
           /\ ~isMotionDetectedRef'
           /\ stabilityTimerRef' = 0]_vars

\* C27 as stated: only a processed frame of the local or the remote path
\* changes the status.
C27_OnlyFramesChangeStatus ==
    [][gestureStatus' # gestureStatus => op' \in {"frame", "cloud"}]_vars

\* C28 as stated: on every remote-path frame that finds the scene still after
\* motion, the hold-time test passes exactly when the stable duration exceeds
\* the stabilityThreshold configured at that moment.
C28_HoldUsesConfiguredThreshold ==
    (op = "cloud" /\ cloud.hadPrev /\ ~IsMoving(cloud.diff) /\ cloud.flag) =>
        (cloud.exceeded <=> now - cloud.timer > stabilityThreshold)

\* C29 as stated: a capture fired by the motion trigger sends the recognition
\* scope and the language hint selected at the moment it fires.
C29_CaptureSendsCurrentSettings ==
    (op = "cloud" /\ cloud.fired) =>
        cloud.sent = [mode |-> mode, language |-> selectedLanguage]

\* Landmark a of set l lies nearer to the wrist (landmark 0) than landmark b.
Nearer(l, a, b) ==
    (l[a].x - l[0].x) * (l[a].x - l[0].x) + (l[a].y - l[0].y) * (l[a].y - l[0].y)
        < (l[b].x - l[0].x) * (l[b].x - l[0].x) + (l[b].y - l[0].y) * (l[b].y - l[0].y)

\* Thumb and pinky tips nearer to the wrist than their joints, the index,
\* middle and ring tips not nearer.
PolarityCase(l) ==
    /\ Nearer(l, 4, 3) /\ Nearer(l, 20, 19)
    /\ ~Nearer(l, 8, 7) /\ ~Nearer(l, 12, 11) /\ ~Nearer(l, 16, 15)

\* C30: the classifier returns "Call_Me" exactly when the thumb and pinky tips
\* are not nearer to the wrist than their joints and the index, middle and ring
\* tips are nearer; in particular it does not return it for a landmark set with
\* thumb and pinky curled and the other three open.
C30_CallMeIffThumbPinkyOpen ==
    op = "classify" =>
        LET l == classified.landmarks
        IN /\ classified.label = "Call_Me" <=>
                  /\ ~Nearer(l, 4, 3) /\ ~Nearer(l, 20, 19)
                  /\ Nearer(l, 8, 7) /\ Nearer(l, 12, 11) /\ Nearer(l, 16, 15)
           /\ PolarityCase(l) => classified.label # "Call_Me"

C30_Witness ==
    /\ op = "classify"
    /\ PolarityCase(classified.landmarks)
    /\ classified.label = Null

\* The effectiveMode of the committed render, which the page shows.
CurrentMode == EffectiveMode(rendered.isOnline, preferredMode)

\* C23 as stated: no loop tick invokes both steps; a tick that invokes the
\* local step runs while the mode is LOCAL and a tick that invokes the remote
\* motion step while it is CLOUD.
C23_OnePathPerTick ==
    /\ ~(tick.local /\ tick.cloud)
    /\ tick.local => CurrentMode = "LOCAL" /\ op # "cloud"
    /\ tick.cloud => CurrentMode = "CLOUD" /\ op = "cloud"

\* C24: a tick that invokes the local step comes more than T_local ms of loop
\* timestamp after the previous invocation of the local step, where T_local is
\* 150 when the CPU-backend flag is set at the tick and 100 otherwise.
C24_LocalStepsApart ==
    (tick.local /\ tick.sinceLocal # -1) =>
        tick.sinceLocal > (IF tick.cpu THEN 150 ELSE 100)

\* Two invocations under the CPU flag as close as the tick rate allows.
C24_Witness ==
    /\ tick.local
    /\ tick.cpu
    /\ tick.sinceLocal # -1
    /\ tick.sinceLocal <= 150 + TickGap

\* C25: a tick that invokes the remote motion step comes more than 200 ms of
\* loop timestamp after the previous invocation of the remote motion step.
C25_RemoteStepsApart ==
    (tick.cloud /\ tick.sinceCloud # -1) => tick.sinceCloud > 200

\* Two invocations as close as the tick rate allows.
C25_Witness ==
    /\ tick.cloud
    /\ tick.sinceCloud # -1
    /\ tick.sinceCloud <= 200 + TickGap

\* C26: a tracker call that takes longer than 20 ms leaves the CPU-backend
\* flag set, also when the reading of its result throws, and no step (frame,
\* model load, retry) clears a set flag.
C26_CpuFlagIsOneWay ==
    [][/\ usingCpuBackendRef => usingCpuBackendRef'
       /\ (tick'.called /\ tick'.duration > 20) => usingCpuBackendRef']_vars

\* A slow tracker call on a GPU-loaded recognizer has set the flag.
C26_Witness ==
    /\ tick.called
    /\ tick.duration > 20
    /\ ~tick.cpu
    /\ usingCpuBackendRef

\* C31: the observation a hand-present frame pushes (the newest entry of the
\* history) is the classifier's label with score 0.9 when the classifier
\* returned a label, and otherwise the tracker's own category and score, or
\* "None" with score 0 when the tracker reported no gesture.
C31_PushedObservation ==
    (op = "frame" /\ frame.hands) =>
        /\ gestureHistoryRef # <<>>
        /\ gestureHistoryRef[Len(gestureHistoryRef)] =
               IF frame.custom # Null
               THEN [category |-> frame.custom, score |-> 90]
               ELSE IF frame.gesture = NoGesture
               THEN [category |-> "None", score |-> 0]
               ELSE frame.gesture

\* A frame whose tracker label was overridden, after a frame that pushed the
\* tracker's own label.
C31_Witness ==
    /\ op = "frame"
    /\ frame.hands
    /\ frame.custom = "Call_Me"
    /\ frame.gesture.category = "Thumb_Up"
    /\ Len(gestureHistoryRef) >= 2
    /\ gestureHistoryRef[Len(gestureHistoryRef)].category = "Call_Me"
    /\ gestureHistoryRef[Len(gestureHistoryRef) - 1].category = "Thumb_Up"

\* C32 as stated: the classifier returns a pointing label only when the index
\* tip is not nearer to the wrist than its joint and the thumb, middle, ring and
\* pinky tips all are; then it returns the left variant when the index tip is
\* more than 0.1 left of the index base joint, the right variant when more than
\* 0.1 right of it, and null in between.
C32_PointingOnlyIndexOpen ==
    op = "classify" =>
        LET l == classified.landmarks
            onlyIndex == /\ ~Nearer(l, 8, 7)
                         /\ Nearer(l, 4, 3) /\ Nearer(l, 12, 11)
                         /\ Nearer(l, 16, 15) /\ Nearer(l, 20, 19)
            expected == IF (l[5].x - l[8].x) * 10 > GridUnits THEN "Point_Left"
                        ELSE IF (l[8].x - l[5].x) * 10 > GridUnits THEN "Point_Right"
                        ELSE Null
        IN /\ classified.label \in {"Point_Left", "Point_Right"} => onlyIndex
           /\ onlyIndex => classified.label = expected

\* C33 as stated: a processed frame whose tracker call failed, or whose
\* tracker output holds no hand and no gesture, completes with the status IDLE
\* or with "None" as the frame's observation.
C33_FaultDegrades ==
    /\ (op = "frame" /\ ~frame.hands) =>
           gestureStatus = "IDLE" \/ frame.obs.category = "None"
    /\ op = "framefailed" => gestureStatus = "IDLE"

\* C34: a frame emits a confirmation only if at least CONFIRMATION_THRESHOLD
\* hand-present frames (that frame included) were processed since the session
\* started, the mode was last switched and a frame last found no hand.
C34_ConfirmNeedsFiveFrames ==
    event.label # Null => handFrames >= 5

\* A confirmation on the fifth frame after a frame without a hand.
C34_Witness ==
    /\ event.label # Null
    /\ event.reset = "handloss"
    /\ Len(gestureHistoryRef) = 5
    /\ handFrames = 5

\* C35: no step takes a window in which label A reaches the confirmation
\* threshold to a window in which a different label B reaches it, so between a
\* frame won by A and a later frame won by B, with a hand present throughout,
\* lies a frame on which no label reaches the threshold; such a frame sets the
\* status MOVING.
C35_WinnerChangesThroughMoving ==
    [][/\ \A a \in AttestedLabels(gestureHistoryRef),
             b \in AttestedLabels(gestureHistoryRef') : a = b
       /\ (op' = "frame" /\ frame'.hands /\ AttestedLabels(gestureHistoryRef') = {}) =>
              gestureStatus' = "MOVING"]_vars

\* Call_Me confirmed after Thumb_Up with a hand present on every frame between.
C35_Witness ==
    /\ op = "frame"
    /\ event.label = "Call_Me"
    /\ event.prev.label = "Thumb_Up"
    /\ event.reset = "no"
    /\ Len(gestureHistoryRef) = HISTORY_SIZE

\* C36 as stated: a remote-path frame fires a capture only if a frame was
\* classified as moving since the session started (after a stop or a mode
\* switch) or since the last capture fired.
C36_CaptureNeedsSessionMotion ==
    (op = "cloud" /\ cloud.fired) => cloud.moved

\* The capture is blocked on the last frame: the processing guard the loop
\* reads is set, or no more than CAPTURE_INTERVAL_MS have passed since the last
\* capture.
Blocked == isProcessingRef \/ now - cloud.prevCapture <= CAPTURE_INTERVAL_MS

\* C37: a settled frame (motion flag set, hold time exceeded) that is blocked
\* by the rate limit or by the processing guard fires nothing, keeps the motion
\* flag set and sets the status STABLE; the flag is cleared by a firing frame
\* only and the stability timer is moved by a moving frame only, so that the
\* scene stays settled while it stays still; and a settled frame that is not
\* blocked fires the capture.
C37_BlockedCaptureFiresLater ==
    /\ []((SettledFrame /\ Blocked) =>
             (~cloud.fired /\ isMotionDetectedRef /\ gestureStatus = "STABLE"))
    /\ []((SettledFrame /\ ~Blocked) => cloud.fired)
    /\ [][(isMotionDetectedRef /\ ~isMotionDetectedRef') =>
              (op' = "cloud" /\ cloud'.fired)]_vars
    /\ [][stabilityTimerRef' # stabilityTimerRef =>
              (op' = "cloud" /\ IsMoving(cloud'.diff))]_vars

\* A capture fired on a still frame that found the status STABLE, as left by
\* a blocked settled frame, as soon as the rate limit allowed it.
C37_Witness ==
    /\ SettledFrame
    /\ cloud.fired
    /\ cloud.before = "STABLE"
    /\ cloud.prevCapture > 0
    /\ now - cloud.prevCapture <= CAPTURE_INTERVAL_MS + RateGap

\* The rules whose condition holds for shape s.
RulesHolding(s) ==
    {r \in {"Call_Me", "Rock_On", "Super", "Pointing"} :
        \/ r = "Call_Me" /\ IsCallMe(s)
        \/ r = "Rock_On" /\ IsRockOn(s)
        \/ r = "Super" /\ IsSuper(s)
        \/ r = "Pointing" /\ IsPointing(s)}

\* C38: for every combination of the five openness bits, the pinch flag and
\* the pointing direction at most one rule's condition holds, and the label
\* returned is that rule's label (the direction's label for the pointing rule),
\* or null when no rule holds, whatever the order of the rules.
C38_RulesExclusive ==
    op \in {"classify", "shape"} =>
        LET s == classified.shape
            holding == RulesHolding(s)
        IN /\ Cardinality(holding) <= 1
           /\ classified.label =
                  IF holding = {} THEN Null
                  ELSE IF holding = {"Pointing"} THEN PointingLabel(s)
                  ELSE CHOOSE r \in holding : TRUE

\* All five fingers open with a pinch: only the pinch rule holds.
C38_Witness ==
    /\ op = "shape"
    /\ classified.shape.thumbOpen /\ classified.shape.indexOpen
    /\ classified.shape.middleOpen /\ classified.shape.ringOpen
    /\ classified.shape.pinkyOpen /\ classified.shape.pinch
    /\ classified.label = "Super"

\* C39 as stated: the video-time guard of the local step rejects a frame only
\* if the video has not advanced since the tick before, so after a restart it
\* rejects no frame of the new stream on account of the time the previous
\* session recorded, which never lies ahead of the stream's time.
C39_GuardSkipsOnlyUnadvancedFrames ==
    /\ (tick.local /\ tick.fresh) => tick.called
    /\ requestRef => lastVideoTimeRef <= videoTime

====
